---- MODULE Spec2Model ----
(***************************************************************************)
(* Model of the source coordination core (source.go): the sourceCoordinator *)
(* that folds concurrent set-up attempts, and the sourceGateway state       *)
(* machine that lazily promotes a source through its state bits.            *)
(***************************************************************************)
EXTENDS Integers, Sequences, FiniteSets, TLC

\* ------------------------------------------------------------------ bounds
NumReq == 2
NumCallers == 2

Reqs == 1..NumReq

\* goroutines that call the operations of one gateway
Callers == 1..NumCallers

\* normalized names, and the canonical URL the probe settles on for each
Names == {"a", "b", "c"}
URLs == {"u1", "u2"}
Versions == {"v1", "v2"}
Revs == {"r1", "r2"}
Analyzers == {"A1", "A2"}
Manifests == {"m1", "m2"}
Trees == {"t1", "t2"}

\* ------------------------------------------------------------------ helpers
EmptyMap == [x \in {} |-> 0]

Put(f, k, v) == [x \in DOMAIN f \cup {k} |-> IF x = k THEN v ELSE f[x]]

Drop(f, k) == [x \in DOMAIN f \ {k} |-> f[x]]

Range(f) == {f[x] : x \in DOMAIN f}

\* the element of a singleton: Only({e(x) : x \in {d}}) is e with x naming
\* the value of d, computed once
Only(S) == CHOOSE x \in S : TRUE

\* ------------------------------------------------------------------ state bits
sourceIsSetUp == 1
sourceExistsUpstream == 2
sourceExistsLocally == 4
sourceHasLatestVersionList == 8
sourceHasLatestLocally == 16

\* sourceExistence flags
existsInVendorRoot == 1
existsInCache == 2
existsUpstream == 4

NilGate == 0
NoSrc == "nil"

\* ------------------------------------------------------------------ external collaborators
\* upstreamURL() of the adapter the candidate probe selects for a name
UrlOf == [n \in Names |-> IF n = "c" THEN "u2" ELSE "u1"]

\* version lists the backend may report: partial maps version -> revision
PVLs == {EmptyMap, "v1" :> "r1", "v1" :> "r2", ("v1" :> "r1") @@ ("v2" :> "r2")}

\* singleSourceCache (memory cache)
newMemoryCache == [vmap |-> EmptyMap, rmap |-> EmptyMap, ml |-> EmptyMap, pt |-> EmptyMap]

ReverseOf(pvl) == [r \in Range(pvl) |-> {v \in DOMAIN pvl : pvl[v] = r}]

storeVersionMap(c, pvl, flush) ==
    IF flush
    THEN [c EXCEPT !.vmap = pvl, !.rmap = ReverseOf(pvl)]
    ELSE LET merged == [v \in DOMAIN c.vmap \cup DOMAIN pvl |->
                            IF v \in DOMAIN pvl THEN pvl[v] ELSE c.vmap[v]]
         IN  [c EXCEPT !.vmap = merged,
                       !.rmap = [r \in DOMAIN c.rmap \cup Range(merged) |->
                                    {v \in DOMAIN merged : merged[v] = r}]]

cacheHasVersion(c, v) == v \in DOMAIN c.vmap

toRevision(c, v) == c.vmap[v]

hasVersionsFor(c, r) == r \in DOMAIN c.rmap

markRevisionExists(c, r) ==
    IF r \in DOMAIN c.rmap THEN c ELSE [c EXCEPT !.rmap = Put(@, r, {})]

\* outcomes of maybeSource.try: failure, or an adapter plus incidentally
\* satisfied bits; a probe that lists versions stores them in the cache it was
\* handed, one that finds or makes a clone reports it
ProbeOutcomes ==
    {[ok |-> FALSE, addl |-> {}, local |-> FALSE, pvl |-> EmptyMap]}
    \cup {[ok |-> TRUE, addl |-> {}, local |-> l, pvl |-> EmptyMap] : l \in BOOLEAN}
    \cup {[ok |-> TRUE, addl |-> {sourceExistsLocally}, local |-> TRUE, pvl |-> EmptyMap]}
    \cup {[ok |-> TRUE, addl |-> {sourceExistsUpstream, sourceHasLatestVersionList},
           local |-> FALSE, pvl |-> p] : p \in PVLs}

\* outcomes of a list-versions dispatch: the supervisor or the backend fails
\* (no list), or the backend answers with a list
ListOutcomes ==
    {[ok |-> FALSE, pvl |-> EmptyMap]} \cup {[ok |-> TRUE, pvl |-> p] : p \in PVLs}

\* what the outside world answers during one gateway call: the probe, the
\* supervisor dispatches of require, the dispatch of the operation itself (op)
\* with the manifest and lock or the package tree it yields, and the backend's
\* answer to revisionPresentIn
DefaultEnv == [probe |-> [ok |-> TRUE, addl |-> {}, local |-> FALSE, pvl |-> EmptyMap],
               ping |-> TRUE, init |-> TRUE,
               list |-> [ok |-> TRUE, pvl |-> EmptyMap], fetch |-> TRUE,
               op |-> TRUE, ml |-> "m1", tree |-> "t1", present |-> TRUE]

\* ------------------------------------------------------------------ gateway
newSourceGateway(maybe) ==
    [maybe |-> maybe, srcState |-> {}, src |-> NoSrc, local |-> FALSE,
     cache |-> newMemoryCache]

Dispatch(cat, ok) == [cat |-> cat, ok |-> ok, pvl |-> EmptyMap]

\* the answers that a call wanting the bits w of gateway g can come to read
EnvsFor(g, w) ==
    LET todo == w \ g.srcState IN
    {[DefaultEnv EXCEPT !.probe = p, !.ping = pg, !.init = i, !.list = l, !.fetch = f] :
        p \in IF sourceIsSetUp \in todo THEN ProbeOutcomes ELSE {DefaultEnv.probe},
        pg \in IF sourceExistsUpstream \in todo THEN BOOLEAN ELSE {TRUE},
        i \in IF sourceExistsLocally \in todo THEN BOOLEAN ELSE {TRUE},
        l \in IF sourceHasLatestVersionList \in todo THEN ListOutcomes ELSE {DefaultEnv.list},
        f \in IF sourceHasLatestLocally \in todo THEN BOOLEAN ELSE {TRUE}}

\* mutant: a successful source-init satisfies sourceExistsLocally alone
RequireStep_initOnly(g, flag, env) ==
    CASE flag = sourceIsSetUp ->
           IF env.probe.ok
           THEN [g |-> [g EXCEPT !.src = UrlOf[g.maybe],
                                 !.local = env.probe.local,
                                 !.cache = IF sourceHasLatestVersionList \in env.probe.addl
                                           THEN storeVersionMap(@, env.probe.pvl, TRUE)
                                           ELSE @],
                 addl |-> env.probe.addl, err |-> FALSE,
                 log |-> <<Dispatch("probe", TRUE)>>]
           ELSE [g |-> g, addl |-> {}, err |-> TRUE, log |-> <<Dispatch("probe", FALSE)>>]
      [] flag = sourceExistsUpstream ->
           [g |-> g, addl |-> {}, err |-> ~env.ping,
            log |-> <<Dispatch("source-ping", env.ping)>>]
      [] flag = sourceExistsLocally ->
           IF g.local
           THEN [g |-> g, addl |-> {}, err |-> FALSE, log |-> <<>>]
           ELSE IF env.init
                THEN [g |-> [g EXCEPT !.local = TRUE], addl |-> {},
                      err |-> FALSE, log |-> <<Dispatch("source-init", TRUE)>>]
                ELSE [g |-> g, addl |-> {}, err |-> TRUE,
                      log |-> <<Dispatch("source-init", FALSE)>>]
      [] flag = sourceHasLatestVersionList ->
           [g |-> IF ~env.list.ok
                  THEN [g EXCEPT !.cache = storeVersionMap(@, env.list.pvl, TRUE)]
                  ELSE g,
            addl |-> {}, err |-> ~env.list.ok,
            log |-> <<[Dispatch("list-versions", env.list.ok) EXCEPT !.pvl = env.list.pvl]>>]
      [] flag = sourceHasLatestLocally ->
           [g |-> g, addl |-> {}, err |-> ~env.fetch,
            log |-> <<Dispatch("source-fetch", env.fetch)>>]

\* one case of the switch in require: the gateway after the step, the
\* incidentally satisfied bits, the error flag and the calls made
RequireStep(g, flag, env) ==
    CASE flag = sourceIsSetUp ->
           IF env.probe.ok
           THEN [g |-> [g EXCEPT !.src = UrlOf[g.maybe],
                                 !.local = env.probe.local,
                                 !.cache = IF sourceHasLatestVersionList \in env.probe.addl
                                           THEN storeVersionMap(@, env.probe.pvl, TRUE)
                                           ELSE @],
                 addl |-> env.probe.addl, err |-> FALSE,
                 log |-> <<Dispatch("probe", TRUE)>>]
           ELSE [g |-> g, addl |-> {}, err |-> TRUE, log |-> <<Dispatch("probe", FALSE)>>]
      [] flag = sourceExistsUpstream ->
           [g |-> g, addl |-> {}, err |-> ~env.ping,
            log |-> <<Dispatch("source-ping", env.ping)>>]
      [] flag = sourceExistsLocally ->
           IF g.local
           THEN [g |-> g, addl |-> {}, err |-> FALSE, log |-> <<>>]
           ELSE IF env.init
                THEN [g |-> [g EXCEPT !.local = TRUE], addl |-> {sourceHasLatestLocally},
                      err |-> FALSE, log |-> <<Dispatch("source-init", TRUE)>>]
                ELSE [g |-> g, addl |-> {}, err |-> TRUE,
                      log |-> <<Dispatch("source-init", FALSE)>>]
      [] flag = sourceHasLatestVersionList ->
           [g |-> IF ~env.list.ok
                  THEN [g EXCEPT !.cache = storeVersionMap(@, env.list.pvl, TRUE)]
                  ELSE g,
            addl |-> {}, err |-> ~env.list.ok,
            log |-> <<[Dispatch("list-versions", env.list.ok) EXCEPT !.pvl = env.list.pvl]>>]
      [] flag = sourceHasLatestLocally ->
           [g |-> g, addl |-> {}, err |-> ~env.fetch,
            log |-> <<Dispatch("source-fetch", env.fetch)>>]

\* mutant: the processed bits are assigned to the state, not OR'd into it
RECURSIVE RequireLoop_overwrite(_, _, _, _, _)
RequireLoop_overwrite(g, todo, flag, env, log) ==
    IF todo = {}
    THEN [g |-> g, err |-> FALSE, errState |-> 0, log |-> log]
    ELSE IF flag \notin todo
         THEN RequireLoop_overwrite(g, todo, flag * 2, env, log)
         ELSE Only({(LET checked == {flag} \cup s.addl
                     IN  IF s.err
                         THEN [g |-> s.g, err |-> TRUE, errState |-> flag,
                               log |-> log \o s.log]
                         ELSE RequireLoop_overwrite([s.g EXCEPT !.srcState = checked],
                                   todo \ checked, flag * 2, env, log \o s.log)) :
                    s \in {RequireStep(g, flag, env)}})

\* mutant: the bit whose step failed is marked as processed before the return
RECURSIVE RequireLoop_markFailed(_, _, _, _, _)
RequireLoop_markFailed(g, todo, flag, env, log) ==
    IF todo = {}
    THEN [g |-> g, err |-> FALSE, errState |-> 0, log |-> log]
    ELSE IF flag \notin todo
         THEN RequireLoop_markFailed(g, todo, flag * 2, env, log)
         ELSE Only({(LET checked == {flag} \cup s.addl
                     IN  IF s.err
                         THEN [g |-> [s.g EXCEPT !.srcState = @ \cup {flag}], err |-> TRUE,
                               errState |-> flag, log |-> log \o s.log]
                         ELSE RequireLoop_markFailed([s.g EXCEPT !.srcState = @ \cup checked],
                                   todo \ checked, flag * 2, env, log \o s.log)) :
                    s \in {RequireStep(g, flag, env)}})

RECURSIVE RequireLoop(_, _, _, _, _)
RequireLoop(g, todo, flag, env, log) ==
    IF todo = {}
    THEN [g |-> g, err |-> FALSE, errState |-> 0, log |-> log]
    ELSE IF flag \notin todo
         THEN RequireLoop(g, todo, flag * 2, env, log)
         ELSE Only({(LET checked == {flag} \cup s.addl
                     IN  IF s.err
                         THEN [g |-> s.g, err |-> TRUE, errState |-> flag,
                               log |-> log \o s.log]
                         ELSE RequireLoop([s.g EXCEPT !.srcState = @ \cup checked],
                                   todo \ checked, flag * 2, env, log \o s.log)) :
                    s \in {RequireStep(g, flag, env)}})

\* mutant: every wanted bit is visited, set already or not
require_allWanted(g, wanted, env) == RequireLoop(g, wanted, 1, env, <<>>)

require(g, wanted, env) == RequireLoop(g, wanted \ g.srcState, 1, env, <<>>)

\* what a gateway operation leaves and returns: the gateway, the result or
\* the error, the calls it made, the wanted sets it required, and the revision
\* it resolved
OpRes(g, ok, res, err, log, reqs, rev) ==
    [g |-> g, ok |-> ok, res |-> res, err |-> err, log |-> log, reqs |-> reqs, rev |-> rev]

\* lines 434-444
sourceURL(g, env) ==
    LET w == {sourceIsSetUp} IN
    Only({(IF q.err
           THEN OpRes(q.g, FALSE, "", "require failed", q.log, <<w>>, "")
           ELSE OpRes(q.g, TRUE, q.g.src, "", q.log, <<w>>, "")) :
          q \in {require(g, w, env)}})

\* lines 243-249
syncLocal(g, env) ==
    LET w == {sourceIsSetUp, sourceExistsLocally, sourceHasLatestLocally} IN
    Only({OpRes(q.g, ~q.err, "", IF q.err THEN "require failed" ELSE "", q.log, <<w>>, "") :
          q \in {require(g, w, env)}})

\* lines 251-271
checkExistence(g, ex, env) ==
    LET w1 == {sourceIsSetUp, sourceExistsUpstream}
        w2 == {sourceIsSetUp, sourceExistsLocally}
        skip(h) == [g |-> h, err |-> FALSE, errState |-> 0, log |-> <<>>]
        r1 == IF existsUpstream \in ex THEN <<w1>> ELSE <<>>
        r2 == IF existsInCache \in ex THEN <<w2>> ELSE <<>>
    IN  Only({(IF q1.err
               THEN OpRes(q1.g, TRUE, "false", "", q1.log, r1, "")
               ELSE Only({OpRes(q2.g, TRUE, IF q2.err THEN "false" ELSE "true", "",
                                q1.log \o q2.log, r1 \o r2, "") :
                          q2 \in {IF existsInCache \in ex
                                  THEN require(q1.g, w2, env)
                                  ELSE skip(q1.g)}})) :
              q1 \in {IF existsUpstream \in ex THEN require(g, w1, env) ELSE skip(g)}})

\* mutant: a miss in the cache always asks the backend for the version list
convertToRevision_alwaysRefresh(g, v, env) ==
    IF cacheHasVersion(g.cache, v)
    THEN OpRes(g, TRUE, toRevision(g.cache, v), "", <<>>, <<>>, toRevision(g.cache, v))
    ELSE LET w == {sourceIsSetUp, sourceHasLatestVersionList} IN
         Only({(IF q.err
                THEN OpRes(q.g, FALSE, "", "require failed", q.log, <<w>>, "")
                ELSE IF cacheHasVersion(q.g.cache, v)
                     THEN OpRes(q.g, TRUE, toRevision(q.g.cache, v), "", q.log, <<w>>,
                                toRevision(q.g.cache, v))
                     ELSE OpRes(q.g, FALSE, "", "no such version", q.log, <<w>>, "")) :
               q \in {require([g EXCEPT !.srcState = @ \ {sourceHasLatestVersionList}], w, env)}})

\* lines 359-397
convertToRevision(g, v, env) ==
    IF cacheHasVersion(g.cache, v)
    THEN OpRes(g, TRUE, toRevision(g.cache, v), "", <<>>, <<>>, toRevision(g.cache, v))
    ELSE IF sourceHasLatestVersionList \in g.srcState
         THEN OpRes(g, FALSE, "", "no such version", <<>>, <<>>, "")
         ELSE LET w == {sourceIsSetUp, sourceHasLatestVersionList} IN
         Only({(IF q.err
                THEN OpRes(q.g, FALSE, "", "require failed", q.log, <<w>>, "")
                ELSE IF cacheHasVersion(q.g.cache, v)
                     THEN OpRes(q.g, TRUE, toRevision(q.g.cache, v), "", q.log, <<w>>,
                                toRevision(q.g.cache, v))
                     ELSE OpRes(q.g, FALSE, "", "no such version", q.log, <<w>>, "")) :
               q \in {require(g, w, env)}})

\* mutant: the version is resolved before the gateway is required to be set
\* up with a local clone
exportVersionTo_resolveFirst(g, v, env) ==
    LET w == {sourceIsSetUp, sourceExistsLocally} IN
    Only({(IF ~c.ok
           THEN OpRes(c.g, FALSE, "", c.err, c.log, c.reqs, "")
           ELSE Only({(IF q.err
                       THEN OpRes(q.g, FALSE, "", "require failed", c.log \o q.log,
                                  c.reqs \o <<w>>, "")
                       ELSE OpRes(q.g, env.op, "", IF env.op THEN "" ELSE "export failed",
                                  c.log \o q.log \o <<Dispatch("export-tree", env.op)>>,
                                  c.reqs \o <<w>>, c.rev)) :
                      q \in {require(c.g, w, env)}})) :
          c \in {convertToRevision(g, v, env)}})

\* lines 273-290
exportVersionTo(g, v, env) ==
    LET w == {sourceIsSetUp, sourceExistsLocally} IN
    Only({(IF q.err
           THEN OpRes(q.g, FALSE, "", "require failed", q.log, <<w>>, "")
           ELSE Only({(IF ~c.ok
                       THEN OpRes(c.g, FALSE, "", c.err, q.log \o c.log, <<w>> \o c.reqs, "")
                       ELSE OpRes(c.g, env.op, "", IF env.op THEN "" ELSE "export failed",
                                  q.log \o c.log \o <<Dispatch("export-tree", env.op)>>,
                                  <<w>> \o c.reqs, c.rev)) :
                      c \in {convertToRevision(q.g, v, env)}})) :
          q \in {require(g, w, env)}})

\* mutant: the derived manifest and lock are returned but not remembered
getManifestAndLock_noStore(g, v, an, env) ==
    LET w == {sourceIsSetUp, sourceExistsLocally} IN
    Only({(IF ~c.ok
           THEN c
           ELSE IF <<c.rev, an>> \in DOMAIN c.g.cache.ml
                THEN OpRes(c.g, TRUE, c.g.cache.ml[<<c.rev, an>>], "", c.log, c.reqs, c.rev)
                ELSE Only({(IF q.err
                            THEN OpRes(q.g, FALSE, "", "require failed", c.log \o q.log,
                                       c.reqs \o <<w>>, c.rev)
                            ELSE IF ~env.op
                                 THEN OpRes(q.g, FALSE, "", "derive failed",
                                            c.log \o q.log \o <<Dispatch("get-manifest-and-lock", FALSE)>>,
                                            c.reqs \o <<w>>, c.rev)
                                 ELSE OpRes(q.g,
                                            TRUE, env.ml, "",
                                            c.log \o q.log \o <<Dispatch("get-manifest-and-lock", TRUE)>>,
                                            c.reqs \o <<w>>, c.rev)) :
                           q \in {require(c.g, w, env)}})) :
          c \in {convertToRevision(g, v, env)}})

\* lines 292-323
getManifestAndLock(g, v, an, env) ==
    LET w == {sourceIsSetUp, sourceExistsLocally} IN
    Only({(IF ~c.ok
           THEN c
           ELSE IF <<c.rev, an>> \in DOMAIN c.g.cache.ml
                THEN OpRes(c.g, TRUE, c.g.cache.ml[<<c.rev, an>>], "", c.log, c.reqs, c.rev)
                ELSE Only({(IF q.err
                            THEN OpRes(q.g, FALSE, "", "require failed", c.log \o q.log,
                                       c.reqs \o <<w>>, c.rev)
                            ELSE IF ~env.op
                                 THEN OpRes(q.g, FALSE, "", "derive failed",
                                            c.log \o q.log \o <<Dispatch("get-manifest-and-lock", FALSE)>>,
                                            c.reqs \o <<w>>, c.rev)
                                 ELSE OpRes([q.g EXCEPT !.cache.ml = Put(@, <<c.rev, an>>, env.ml)],
                                            TRUE, env.ml, "",
                                            c.log \o q.log \o <<Dispatch("get-manifest-and-lock", TRUE)>>,
                                            c.reqs \o <<w>>, c.rev)) :
                           q \in {require(c.g, w, env)}})) :
          c \in {convertToRevision(g, v, env)}})

\* lines 327-357
listPackages(g, v, env) ==
    LET w == {sourceIsSetUp, sourceExistsLocally} IN
    Only({(IF ~c.ok
           THEN c
           ELSE IF c.rev \in DOMAIN c.g.cache.pt
                THEN OpRes(c.g, TRUE, c.g.cache.pt[c.rev], "", c.log, c.reqs, c.rev)
                ELSE Only({(IF q.err
                            THEN OpRes(q.g, FALSE, "", "require failed", c.log \o q.log,
                                       c.reqs \o <<w>>, c.rev)
                            ELSE IF ~env.op
                                 THEN OpRes(q.g, FALSE, "", "list failed",
                                            c.log \o q.log \o <<Dispatch("list-packages", FALSE)>>,
                                            c.reqs \o <<w>>, c.rev)
                                 ELSE OpRes([q.g EXCEPT !.cache.pt = Put(@, c.rev, env.tree)],
                                            TRUE, env.tree, "",
                                            c.log \o q.log \o <<Dispatch("list-packages", TRUE)>>,
                                            c.reqs \o <<w>>, c.rev)) :
                           q \in {require(c.g, w, env)}})) :
          c \in {convertToRevision(g, v, env)}})

\* lines 399-412 (the list returned is the cache's version map)
listVersions(g, env) ==
    LET w == {sourceIsSetUp, sourceExistsUpstream, sourceHasLatestVersionList} IN
    Only({OpRes(q.g, ~q.err, "", IF q.err THEN "require failed" ELSE "", q.log, <<w>>, "") :
          q \in {require(g, w, env)}})

\* lines 414-432
revisionPresentIn(g, r, env) ==
    LET w == {sourceIsSetUp, sourceExistsLocally} IN
    Only({(IF q.err
           THEN OpRes(q.g, FALSE, "false", "require failed", q.log, <<w>>, r)
           ELSE IF hasVersionsFor(q.g.cache, r)
                THEN OpRes(q.g, TRUE, "true", "", q.log, <<w>>, r)
                ELSE IF env.present
                     THEN OpRes([q.g EXCEPT !.cache = markRevisionExists(@, r)], TRUE,
                                "true", "", q.log, <<w>>, r)
                     ELSE OpRes(q.g, TRUE, "false", "", q.log, <<w>>, r)) :
          q \in {require(g, w, env)}})

\* ------------------------------------------------------------------ state
VARIABLES
    terminated,   \* supervisor lifetime context cancelled
    srcmut,       \* sc.srcmut: [w: writer or 0, r: set of readers]
    srcs,         \* sc.srcs: url -> gateway
    nameToURL,    \* sc.nameToURL: normalized name -> url
    psrcmut,      \* sc.psrcmut: holder or 0
    protoSrcs,    \* sc.protoSrcs: normalized name -> list of return chans
    req,          \* the callers of getSourceGatewayFor
    task,         \* the setUpSourceGateway goroutine spawned by each caller
    gw,           \* the gateways constructed so far, by identity
    deduceCalls,  \* calls of deducer.deduceRootPath per name
    probeCalls,   \* calls of maybe.try per name
    lastOp,       \* record of the latest call of a gateway operation
    gmlHistory,   \* the (version, analyzer) calls of getManifestAndLock that
                  \* succeeded, with the pair each returned first
    mu,           \* sg.mu of the gateway the callers share: holder or 0
    gcall,        \* the callers of that gateway's operations
    crepo         \* bs.crepo.mut of its adapter: [w: writer or 0, r: readers]

coordVars == <<terminated, srcmut, srcs, nameToURL, psrcmut, protoSrcs, req, task,
               deduceCalls, probeCalls>>
lockVars == <<mu, gcall, crepo>>
vars == <<terminated, srcmut, srcs, nameToURL, psrcmut, protoSrcs, req, task, gw,
          deduceCalls, probeCalls, lastOp, gmlHistory, lockVars>>

NoRes == [gw |-> NilGate, err |-> "", from |-> 0]
NoOp == [op |-> "none", gid |-> 0, arg |-> "", an |-> "", ok |-> TRUE, res |-> "",
         err |-> "", log |-> <<>>, reqs |-> <<>>, rev |-> "", list |-> EmptyMap, seq |-> 0]

IdleReq == [pc |-> "idle", name |-> "", res |-> NoRes, d0 |-> 0, p0 |-> FALSE,
            s0 |-> 0, path |-> "none"]
NoTask == [pc |-> "none", sg |-> NilGate, err |-> "", fresh |-> NilGate, url |-> "",
           idx |-> 0, holdW |-> FALSE, joined |-> 0]

CoordInit ==
    /\ terminated = FALSE
    /\ srcmut = [w |-> 0, r |-> {}]
    /\ srcs = EmptyMap
    /\ nameToURL = EmptyMap
    /\ psrcmut = 0
    /\ protoSrcs = EmptyMap
    /\ req = [r \in Reqs |-> IdleReq]
    /\ task = [r \in Reqs |-> NoTask]
    /\ deduceCalls = [n \in Names |-> 0]
    /\ probeCalls = [n \in Names |-> 0]

\* a caller outside every operation: its position, the operation it is in,
\* the calls that operation still makes, and the adapter call in progress
IdleCall == [pc |-> "idle", op |-> "", calls |-> <<>>, prog |-> <<>>, at |-> ""]

LockInit ==
    /\ mu = 0
    /\ gcall = [t \in Callers |-> IdleCall]
    /\ crepo = [w |-> 0, r |-> {}]

Init ==
    /\ CoordInit
    /\ LockInit
    /\ gw = <<>>
    /\ lastOp = NoOp
    /\ gmlHistory = EmptyMap

\* the probes a set-up task may meet
SetUpProbes ==
    {po \in ProbeOutcomes : po.addl = {} /\ ~po.local}

\* ------------------------------------------------------------------ getSourceGatewayFor
\* mutant: the lifetime context is not consulted
Call_noLifetimeCheck(r, n) ==
    /\ req[r].pc = "idle"
    /\ IF r = 1 THEN TRUE ELSE req[r - 1].pc # "idle"
    /\ req' = [req EXCEPT ![r] =
                 [@ EXCEPT !.pc = "rlock", !.name = n,
                           !.d0 = deduceCalls[n], !.p0 = (n \in DOMAIN protoSrcs)]]
    /\ UNCHANGED <<terminated, srcmut, srcs, nameToURL, psrcmut, protoSrcs, task, gw,
                   deduceCalls, probeCalls, lastOp, gmlHistory, lockVars>>

\* lines 97-102: the lifetime check and the normalized name
Call(r, n) ==
    /\ req[r].pc = "idle"
    /\ IF r = 1 THEN TRUE ELSE req[r - 1].pc # "idle"
    /\ req' = [req EXCEPT ![r] =
                 IF terminated
                 THEN [@ EXCEPT !.pc = "done", !.name = n, !.path = "refused",
                                !.res = [gw |-> NilGate, err |-> "terminated", from |-> 0]]
                 ELSE [@ EXCEPT !.pc = "rlock", !.name = n,
                                !.d0 = deduceCalls[n], !.p0 = (n \in DOMAIN protoSrcs)]]
    /\ UNCHANGED <<terminated, srcmut, srcs, nameToURL, psrcmut, protoSrcs, task, gw,
                   deduceCalls, probeCalls, lastOp, gmlHistory, lockVars>>

\* sync.RWMutex: a reader enters when no writer holds the lock
RLockFree == srcmut.w = 0

\* a writer enters when nobody holds the lock
LockFree == srcmut.w = 0 /\ srcmut.r = {}

\* line 104
FastRLock(r) ==
    /\ req[r].pc = "rlock"
    /\ RLockFree
    /\ srcmut' = [srcmut EXCEPT !.r = @ \cup {r}]
    /\ req' = [req EXCEPT ![r].pc = "read"]
    /\ UNCHANGED <<terminated, srcs, nameToURL, psrcmut, protoSrcs, task, gw,
                   deduceCalls, probeCalls, lastOp, gmlHistory, lockVars>>

\* lines 105-125: the fast path, or the spawn of the set-up task
FastRead(r) ==
    /\ req[r].pc = "read"
    /\ srcmut' = [srcmut EXCEPT !.r = @ \ {r}]
    /\ LET n == req[r].name IN
       IF n \in DOMAIN nameToURL
       THEN /\ req' = [req EXCEPT ![r] =
                         IF nameToURL[n] \in DOMAIN srcs
                         THEN [@ EXCEPT !.pc = "done", !.path = "fast",
                                        !.res = [gw |-> srcs[nameToURL[n]], err |-> "", from |-> 0]]
                         ELSE [@ EXCEPT !.pc = "panic"]]
            /\ task' = task
       ELSE /\ req' = [req EXCEPT ![r].pc = "await", ![r].path = "slow",
                                  ![r].s0 = deduceCalls[n]]
            /\ task' = [task EXCEPT ![r].pc = "plock"]
    /\ UNCHANGED <<terminated, srcs, nameToURL, psrcmut, protoSrcs, gw,
                   deduceCalls, probeCalls, lastOp, gmlHistory, lockVars>>

\* ------------------------------------------------------------------ setUpSourceGateway
\* mutant: the pending check never folds, every task becomes a worker
PendingCheck_noFold(r) ==
    /\ task[r].pc = "plock"
    /\ psrcmut = 0
    /\ psrcmut' = 0
    /\ protoSrcs' = Put(protoSrcs, req[r].name, <<r>>)
    /\ task' = [task EXCEPT ![r].pc = "deduce"]
    /\ UNCHANGED <<terminated, srcmut, srcs, nameToURL, req, gw,
                   deduceCalls, probeCalls, lastOp, gmlHistory, lockVars>>

\* lines 130-140, one critical section of psrcmut that never blocks: fold onto
\* the worker in flight, or become the worker
PendingCheck(r) ==
    /\ task[r].pc = "plock"
    /\ psrcmut = 0
    /\ psrcmut' = 0
    /\ LET n == req[r].name IN
       IF n \in DOMAIN protoSrcs
       THEN /\ protoSrcs' = [protoSrcs EXCEPT ![n] = Append(@, r)]
            /\ task' = [task EXCEPT ![r].pc = "folded", ![r].joined = Head(protoSrcs[n])]
       ELSE /\ protoSrcs' = Put(protoSrcs, n, <<r>>)
            /\ task' = [task EXCEPT ![r].pc = "deduce"]
    /\ UNCHANGED <<terminated, srcmut, srcs, nameToURL, req, gw,
                   deduceCalls, probeCalls, lastOp, gmlHistory, lockVars>>

\* mutant: a failed deduction reaches doReturn without its error
Deduce_noError(r) ==
    /\ task[r].pc = "deduce"
    /\ deduceCalls' = [deduceCalls EXCEPT ![req[r].name] = @ + 1]
    /\ \E ok \in BOOLEAN :
         task' = [task EXCEPT ![r] =
                    IF ok THEN [@ EXCEPT !.pc = "rlock"]
                    ELSE [@ EXCEPT !.pc = "retlock", !.sg = NilGate]]
    /\ UNCHANGED <<terminated, srcmut, srcs, nameToURL, psrcmut, protoSrcs, req, gw,
                   probeCalls, lastOp, gmlHistory, lockVars>>

\* lines 160-166
Deduce(r) ==
    /\ task[r].pc = "deduce"
    /\ deduceCalls' = [deduceCalls EXCEPT ![req[r].name] = @ + 1]
    /\ \E ok \in BOOLEAN :
         task' = [task EXCEPT ![r] =
                    IF ok THEN [@ EXCEPT !.pc = "rlock"]
                    ELSE [@ EXCEPT !.pc = "retlock", !.sg = NilGate,
                                   !.err = "deduction failed"]]
    /\ UNCHANGED <<terminated, srcmut, srcs, nameToURL, psrcmut, protoSrcs, req, gw,
                   probeCalls, lastOp, gmlHistory, lockVars>>

\* line 174
ReRLock(r) ==
    /\ task[r].pc = "rlock"
    /\ RLockFree
    /\ srcmut' = [srcmut EXCEPT !.r = @ \cup {r}]
    /\ task' = [task EXCEPT ![r].pc = "reread"]
    /\ UNCHANGED <<terminated, srcs, nameToURL, psrcmut, protoSrcs, req, gw,
                   deduceCalls, probeCalls, lastOp, gmlHistory, lockVars>>

\* lines 175-183: the re-check of the resolved maps
ReRead(r) ==
    /\ task[r].pc = "reread"
    /\ srcmut' = [srcmut EXCEPT !.r = @ \ {r}]
    /\ LET n == req[r].name IN
       task' = [task EXCEPT ![r] =
                  IF n \in DOMAIN nameToURL
                  THEN IF nameToURL[n] \in DOMAIN srcs
                       THEN [@ EXCEPT !.pc = "retlock", !.sg = srcs[nameToURL[n]]]
                       ELSE [@ EXCEPT !.pc = "panic"]
                  ELSE [@ EXCEPT !.pc = "probe"]]
    /\ UNCHANGED <<terminated, srcs, nameToURL, psrcmut, protoSrcs, req, gw,
                   deduceCalls, probeCalls, lastOp, gmlHistory, lockVars>>

\* lines 185-201: a fresh gateway, and its sourceURL
Probe(r) ==
    /\ task[r].pc = "probe"
    /\ probeCalls' = [probeCalls EXCEPT ![req[r].name] = @ + 1]
    /\ \E po \in SetUpProbes :
         LET q == sourceURL(newSourceGateway(req[r].name), [DefaultEnv EXCEPT !.probe = po])
         IN  /\ gw' = Append(gw, q.g)
             /\ task' = [task EXCEPT ![r] =
                           IF ~q.ok
                           THEN [@ EXCEPT !.pc = "retlock", !.sg = NilGate,
                                          !.err = "probe failed"]
                           ELSE [@ EXCEPT !.pc = "wlock", !.fresh = Len(gw) + 1,
                                          !.url = q.res]]
    /\ UNCHANGED <<terminated, srcmut, srcs, nameToURL, psrcmut, protoSrcs, req,
                   deduceCalls, lastOp, gmlHistory, lockVars>>

\* line 205 (the unlock is deferred to the return)
WLock(r) ==
    /\ task[r].pc = "wlock"
    /\ LockFree
    /\ srcmut' = [srcmut EXCEPT !.w = r]
    /\ task' = [task EXCEPT ![r].pc = "instname", ![r].holdW = TRUE]
    /\ UNCHANGED <<terminated, srcs, nameToURL, psrcmut, protoSrcs, req, gw,
                   deduceCalls, probeCalls, lastOp, gmlHistory, lockVars>>

\* line 208
InstallName(r) ==
    /\ task[r].pc = "instname"
    /\ nameToURL' = Put(nameToURL, req[r].name, task[r].url)
    /\ task' = [task EXCEPT ![r].pc = "instgate"]
    /\ UNCHANGED <<terminated, srcmut, srcs, psrcmut, protoSrcs, req, gw,
                   deduceCalls, probeCalls, lastOp, gmlHistory, lockVars>>

\* mutant: the fresh gateway replaces the one the URL already has
InstallGateway_overwrite(r) ==
    /\ task[r].pc = "instgate"
    /\ srcs' = Put(srcs, task[r].url, task[r].fresh)
    /\ task' = [task EXCEPT ![r].pc = "retlock", ![r].sg = task[r].fresh]
    /\ UNCHANGED <<terminated, srcmut, nameToURL, psrcmut, protoSrcs, req, gw,
                   deduceCalls, probeCalls, lastOp, gmlHistory, lockVars>>

\* mutant: the fresh gateway is handed out but never registered under its URL
InstallGateway_forget(r) ==
    /\ task[r].pc = "instgate"
    /\ srcs' = srcs
    /\ task' = [task EXCEPT ![r].pc = "retlock",
                            ![r].sg = IF task[r].url \in DOMAIN srcs
                                      THEN srcs[task[r].url] ELSE task[r].fresh]
    /\ UNCHANGED <<terminated, srcmut, nameToURL, psrcmut, protoSrcs, req, gw,
                   deduceCalls, probeCalls, lastOp, gmlHistory, lockVars>>

\* mutant: the worker that lost the race for its URL still returns its own gateway
InstallGateway_deliverFresh(r) ==
    /\ task[r].pc = "instgate"
    /\ srcs' = IF task[r].url \in DOMAIN srcs THEN srcs
               ELSE Put(srcs, task[r].url, task[r].fresh)
    /\ task' = [task EXCEPT ![r].pc = "retlock", ![r].sg = task[r].fresh]
    /\ UNCHANGED <<terminated, srcmut, nameToURL, psrcmut, protoSrcs, req, gw,
                   deduceCalls, probeCalls, lastOp, gmlHistory, lockVars>>

\* lines 210-217: keep the gateway the URL already has, or install the fresh one
InstallGateway(r) ==
    /\ task[r].pc = "instgate"
    /\ LET url == task[r].url IN
       IF url \in DOMAIN srcs
       THEN /\ srcs' = srcs
            /\ task' = [task EXCEPT ![r].pc = "retlock", ![r].sg = srcs[url]]
       ELSE /\ srcs' = Put(srcs, url, task[r].fresh)
            /\ task' = [task EXCEPT ![r].pc = "retlock", ![r].sg = task[r].fresh]
    /\ UNCHANGED <<terminated, srcmut, nameToURL, psrcmut, protoSrcs, req, gw,
                   deduceCalls, probeCalls, lastOp, gmlHistory, lockVars>>

\* doReturn, lines 143-154: the pending lock, and the choice of channel
RetLock(r) ==
    /\ task[r].pc = "retlock"
    /\ psrcmut = 0
    /\ psrcmut' = r
    /\ task' = [task EXCEPT ![r] =
                  IF @.sg = NilGate /\ @.err = ""
                  THEN [@ EXCEPT !.pc = "panicnil"]
                  ELSE [@ EXCEPT !.pc = "deliver", !.idx = 1]]
    /\ UNCHANGED <<terminated, srcmut, srcs, nameToURL, protoSrcs, req, gw,
                   deduceCalls, probeCalls, lastOp, gmlHistory, lockVars>>

\* mutant: only the first waiter of the list is served
Deliver_firstOnly(r) ==
    /\ task[r].pc = "deliver"
    /\ task[r].idx <= Len(protoSrcs[req[r].name])
    /\ LET q == protoSrcs[req[r].name][task[r].idx] IN
         /\ req[q].pc = "await"
         /\ req' = [req EXCEPT ![q].pc = "done",
                               ![q].res = IF task[r].sg # NilGate
                                          THEN [gw |-> task[r].sg, err |-> "", from |-> r]
                                          ELSE [gw |-> NilGate, err |-> task[r].err,
                                                from |-> r]]
    /\ task' = [task EXCEPT ![r].idx = Len(protoSrcs[req[r].name]) + 1]
    /\ UNCHANGED <<terminated, srcmut, srcs, nameToURL, psrcmut, protoSrcs, gw,
                   deduceCalls, probeCalls, lastOp, gmlHistory, lockVars>>

\* doReturn, lines 145-151: one send on an unbuffered channel, taken by the
\* caller blocked in awaitReturn (lines 67-73)
Deliver(r) ==
    /\ task[r].pc = "deliver"
    /\ task[r].idx <= Len(protoSrcs[req[r].name])
    /\ LET q == protoSrcs[req[r].name][task[r].idx] IN
         /\ req[q].pc = "await"
         /\ req' = [req EXCEPT ![q].pc = "done",
                               ![q].res = IF task[r].sg # NilGate
                                          THEN [gw |-> task[r].sg, err |-> "", from |-> r]
                                          ELSE [gw |-> NilGate, err |-> task[r].err,
                                                from |-> r]]
    /\ task' = [task EXCEPT ![r].idx = @ + 1]
    /\ UNCHANGED <<terminated, srcmut, srcs, nameToURL, psrcmut, protoSrcs, gw,
                   deduceCalls, probeCalls, lastOp, gmlHistory, lockVars>>

\* mutant: the pending entry is left behind after the delivery
DoReturnEnd_keepEntry(r) ==
    /\ task[r].pc = "deliver"
    /\ task[r].idx > Len(protoSrcs[req[r].name])
    /\ protoSrcs' = protoSrcs
    /\ psrcmut' = 0
    /\ srcmut' = IF task[r].holdW THEN [srcmut EXCEPT !.w = 0] ELSE srcmut
    /\ task' = [task EXCEPT ![r].pc = "finished", ![r].holdW = FALSE]
    /\ UNCHANGED <<terminated, srcs, nameToURL, req, gw, deduceCalls, probeCalls, lastOp, gmlHistory, lockVars>>

\* mutant: doReturn returns without releasing the pending lock
DoReturnEnd_keepLock(r) ==
    /\ task[r].pc = "deliver"
    /\ task[r].idx > Len(protoSrcs[req[r].name])
    /\ protoSrcs' = Drop(protoSrcs, req[r].name)
    /\ psrcmut' = psrcmut
    /\ srcmut' = IF task[r].holdW THEN [srcmut EXCEPT !.w = 0] ELSE srcmut
    /\ task' = [task EXCEPT ![r].pc = "finished", ![r].holdW = FALSE]
    /\ UNCHANGED <<terminated, srcs, nameToURL, req, gw, deduceCalls, probeCalls, lastOp, gmlHistory, lockVars>>

\* doReturn, lines 156-157, and the deferred unlock of line 206
DoReturnEnd(r) ==
    /\ task[r].pc = "deliver"
    /\ task[r].idx > Len(protoSrcs[req[r].name])
    /\ protoSrcs' = Drop(protoSrcs, req[r].name)
    /\ psrcmut' = 0
    /\ srcmut' = IF task[r].holdW THEN [srcmut EXCEPT !.w = 0] ELSE srcmut
    /\ task' = [task EXCEPT ![r].pc = "finished", ![r].holdW = FALSE]
    /\ UNCHANGED <<terminated, srcs, nameToURL, req, gw, deduceCalls, probeCalls, lastOp, gmlHistory, lockVars>>

\* the supervisor's lifetime context is cancelled
Cancel ==
    /\ ~terminated
    /\ terminated' = TRUE
    /\ UNCHANGED <<srcmut, srcs, nameToURL, psrcmut, protoSrcs, req, task, gw,
                   deduceCalls, probeCalls, lastOp, gmlHistory, lockVars>>

Step(r) ==
    \/ FastRLock(r) \/ FastRead(r)
    \/ PendingCheck(r) \/ Deduce(r) \/ ReRLock(r) \/ ReRead(r) \/ Probe(r)
    \/ WLock(r) \/ InstallName(r) \/ InstallGateway(r)
    \/ RetLock(r) \/ Deliver(r) \/ DoReturnEnd(r)

Next ==
    \/ \E r \in Reqs : (\E n \in Names : Call(r, n)) \/ Step(r)
    \/ Cancel

Spec == Init /\ [][Next]_vars

\* goroutines are scheduled fairly; the deducer and the probe terminate
FairSpec == Spec /\ \A r \in Reqs : WF_vars(Step(r))

\* ------------------------------------------------------------------ gateway operations
\* a call of a public operation on gateway i, made under sg.mu from its first
\* line to its return: the gateway it leaves and the record of the call
Returns(name, i, arg, an, R) ==
    /\ gw' = [gw EXCEPT ![i] = R.g]
    /\ lastOp' = [op |-> name, gid |-> i, arg |-> arg, an |-> an, ok |-> R.ok,
                  res |-> R.res, err |-> R.err, log |-> R.log, reqs |-> R.reqs,
                  rev |-> R.rev,
                  list |-> IF name = "listVersions" /\ R.ok THEN R.g.cache.vmap ELSE EmptyMap,
                  seq |-> 1 - lastOp.seq]
    /\ UNCHANGED <<coordVars, lockVars>>

SourceURL(i) ==
    /\ \E env \in EnvsFor(gw[i], {sourceIsSetUp}) :
         \E R \in {sourceURL(gw[i], env)} :
             Returns("sourceURL", i, "", "", R)
    /\ UNCHANGED gmlHistory

SyncLocal(i) ==
    /\ \E env \in EnvsFor(gw[i], {sourceIsSetUp, sourceExistsLocally, sourceHasLatestLocally}) :
         \E R \in {syncLocal(gw[i], env)} :
             Returns("syncLocal", i, "", "", R)
    /\ UNCHANGED gmlHistory

CheckExistence(i, ex) ==
    /\ \E env \in EnvsFor(gw[i], {sourceIsSetUp, sourceExistsUpstream, sourceExistsLocally}) :
         \E R \in {checkExistence(gw[i], ex, env)} :
             Returns("checkExistence", i, ex, "", R)
    /\ UNCHANGED gmlHistory

ExportVersionTo(i, v) ==
    /\ \E env \in EnvsFor(gw[i], {sourceIsSetUp, sourceExistsLocally,
                                  sourceHasLatestVersionList}), o \in BOOLEAN :
         \E R \in {exportVersionTo(gw[i], v, [env EXCEPT !.op = o])} :
             Returns("exportVersionTo", i, v, "", R)
    /\ UNCHANGED gmlHistory

GetManifestAndLock(i, v, an) ==
    \E env \in EnvsFor(gw[i], {sourceIsSetUp, sourceExistsLocally,
                               sourceHasLatestVersionList}),
       o \in BOOLEAN, m \in Manifests :
         \E R \in {getManifestAndLock(gw[i], v, an, [env EXCEPT !.op = o, !.ml = m])} :
             /\ Returns("getManifestAndLock", i, v, an, R)
             /\ gmlHistory' = IF R.ok /\ <<v, an>> \notin DOMAIN gmlHistory
                              THEN Put(gmlHistory, <<v, an>>, R.res)
                              ELSE gmlHistory

ListPackages(i, v) ==
    /\ \E env \in EnvsFor(gw[i], {sourceIsSetUp, sourceExistsLocally,
                                  sourceHasLatestVersionList}),
          o \in BOOLEAN, t \in Trees :
         \E R \in {listPackages(gw[i], v, [env EXCEPT !.op = o, !.tree = t])} :
             Returns("listPackages", i, v, "", R)
    /\ UNCHANGED gmlHistory

ConvertToRevision(i, v) ==
    /\ \E env \in EnvsFor(gw[i], {sourceIsSetUp, sourceHasLatestVersionList}) :
         \E R \in {convertToRevision(gw[i], v, env)} :
             Returns("convertToRevision", i, v, "", R)
    /\ UNCHANGED gmlHistory

ListVersions(i) ==
    /\ \E env \in EnvsFor(gw[i], {sourceIsSetUp, sourceExistsUpstream,
                                  sourceHasLatestVersionList}) :
         \E R \in {listVersions(gw[i], env)} :
             Returns("listVersions", i, "", "", R)
    /\ UNCHANGED gmlHistory

RevisionPresentIn(i, r) ==
    /\ \E env \in EnvsFor(gw[i], {sourceIsSetUp, sourceExistsLocally}), pr \in BOOLEAN :
         \E R \in {revisionPresentIn(gw[i], r, [env EXCEPT !.present = pr])} :
             Returns("revisionPresentIn", i, r, "", R)
    /\ UNCHANGED gmlHistory

\* one gateway as newSourceGateway leaves it, and its callers
GwInit ==
    /\ CoordInit
    /\ LockInit
    /\ gw = <<newSourceGateway("a")>>
    /\ lastOp = NoOp
    /\ gmlHistory = EmptyMap

GwNext ==
    \/ \E i \in DOMAIN gw : SourceURL(i)
    \/ \E i \in DOMAIN gw : SyncLocal(i)
    \/ \E i \in DOMAIN gw :
         \E ex \in SUBSET {existsInVendorRoot, existsInCache, existsUpstream} :
            CheckExistence(i, ex)
    \/ \E i \in DOMAIN gw : \E v \in Versions : ExportVersionTo(i, v)
    \/ \E i \in DOMAIN gw : \E v \in Versions, an \in Analyzers : GetManifestAndLock(i, v, an)
    \/ \E i \in DOMAIN gw : \E v \in Versions : ListPackages(i, v)
    \/ \E i \in DOMAIN gw : \E v \in Versions : ConvertToRevision(i, v)
    \/ \E i \in DOMAIN gw : ListVersions(i)
    \/ \E i \in DOMAIN gw : \E r \in Revs : RevisionPresentIn(i, r)

GatewaySpec == GwInit /\ [][GwNext]_vars

\* ------------------------------------------------------------------ coordinator properties
Done(r) == req[r].pc = "done"

GotGateway(r) == Done(r) /\ req[r].res.gw # NilGate

\* the positions of a set-up task between its pending check and its return
WorkerPcs == {"deduce", "rlock", "reread", "probe", "wlock", "instname", "instgate",
              "retlock", "deliver"}

\* the tasks of a name that became workers
WorkersOf(n) == {r \in Reqs : req[r].name = n /\ task[r].pc \in WorkerPcs \cup {"finished"}}

\* the URLs a worker has carried through the installation of lines 205-217
InstalledURLs == {task[r].url : r \in {q \in Reqs : task[q].url # "" /\ task[q].sg # NilGate}}

\* C1, state part: callers whose names resolve to the same canonical URL hold
\* the same gateway, and srcs has exactly one key per URL carried through the
\* installation
C1_SameGateway ==
    /\ \A r1, r2 \in Reqs :
         (GotGateway(r1) /\ GotGateway(r2) /\ UrlOf[req[r1].name] = UrlOf[req[r2].name])
            => req[r1].res.gw = req[r2].res.gw
    /\ DOMAIN srcs = InstalledURLs
    /\ Cardinality(DOMAIN srcs) = Cardinality(InstalledURLs)

\* C1, step part: a URL key of srcs, once installed, keeps its gateway
C1_NeverReplaced ==
    [][\A u \in DOMAIN srcs : u \in DOMAIN srcs' /\ srcs'[u] = srcs[u]]_vars

\* C1: one gateway per canonical URL, for every interleaving of the callers
C1_GatewayUnique == [](C1_SameGateway) /\ C1_NeverReplaced

\* C1 witness: two callers with different names of one URL hold the same
\* gateway, after two gateways were constructed for that URL
C1_Witness ==
    \E r1, r2 \in Reqs :
        /\ GotGateway(r1) /\ GotGateway(r2)
        /\ req[r1].name = "a" /\ req[r2].name = "b"
        /\ req[r1].res.gw = req[r2].res.gw
        /\ Len(gw) = 2
        /\ gw[1].src = gw[2].src

\* the callers of name n all missed the fast path and spawned their set-up
\* tasks before the first deducer call for n: they are concurrent
ConcurrentSlow(n) ==
    /\ \E r \in Reqs : req[r].name = n
    /\ \A r \in Reqs : req[r].name = n => (req[r].path = "slow" /\ req[r].s0 = 0)

\* C2 as stated: concurrent callers of one name trigger one deducer call and
\* one probe, whatever the scheduling
C2_Original ==
    \A n \in Names : ConcurrentSlow(n) => (deduceCalls[n] <= 1 /\ probeCalls[n] <= 1)

\* C2 amended: at most one worker per name is in flight, each worker calls the
\* deducer once and the probe at most once, a folded task calls neither, and at
\* most one probe per name succeeds
C2_OneWorkerAtATime ==
    \A n \in Names :
        /\ Cardinality({r \in Reqs : req[r].name = n /\ task[r].pc \in WorkerPcs}) <= 1
        /\ deduceCalls[n] =
              Cardinality({r \in WorkersOf(n) : task[r].pc # "deduce"})
        /\ probeCalls[n] <= deduceCalls[n]
        /\ Cardinality({g \in 1..Len(gw) :
                          gw[g].maybe = n /\ sourceIsSetUp \in gw[g].srcState}) <= 1

\* C2 witness: two concurrent callers of one name are both served, one folded
\* onto the other's worker, by one deducer call and one probe
C2_Witness ==
    \E r1, r2 \in Reqs :
        /\ r1 # r2 /\ req[r1].name = req[r2].name
        /\ GotGateway(r1) /\ GotGateway(r2)
        /\ task[r2].pc = "folded" /\ task[r2].joined = r1
        /\ deduceCalls[req[r1].name] = 1 /\ probeCalls[req[r1].name] = 1

\* every returned call holds exactly one result, sent by the worker whose list
\* it was in: its own task, or the worker it folded onto
C3_OneResult ==
    \A r \in Reqs :
        (Done(r) /\ req[r].path = "slow") =>
            /\ (req[r].res.gw # NilGate) # (req[r].res.err # "")
            /\ req[r].res.from = IF task[r].pc = "folded" THEN task[r].joined ELSE r

\* C3: under fair scheduling every caller on the slow path returns, with
\* exactly one result
C3_EventuallyReturns ==
    /\ []<>(\A r \in Reqs : req[r].pc # "await")
    /\ [](C3_OneResult)

\* C3 witness: a caller that folded onto a worker in flight has returned with
\* that worker's result
C3_Witness ==
    \E r \in Reqs :
        /\ Done(r) /\ req[r].path = "slow"
        /\ task[r].pc = "folded" /\ req[r].res.from = task[r].joined
        /\ req[r].res.from # r

C5_InstalledBeforeReturn ==
    \A r \in Reqs :
        GotGateway(r) =>
            /\ req[r].name \in DOMAIN nameToURL
            /\ nameToURL[req[r].name] \in DOMAIN srcs
            /\ srcs[nameToURL[req[r].name]] = req[r].res.gw

\* C5 witness: a slow-path caller holds the installed gateway although its own
\* worker constructed another one, which lost the race for the URL
C5_Witness ==
    \E r \in Reqs :
        /\ GotGateway(r) /\ req[r].path = "slow"
        /\ task[r].fresh # NilGate
        /\ task[r].fresh # req[r].res.gw
        /\ task[r].fresh \notin Range(srcs)

\* the set-up task of r failed
Failed(r) == task[r].err # ""

\* C10, step part: no step of a failed set-up task touches the resolved maps
C10_MapsUntouched ==
    [][\A r \in Reqs :
          (task'[r] # task[r] /\ task'[r].err # "")
             => (nameToURL' = nameToURL /\ srcs' = srcs)]_vars

\* C10, state part: a failed task that has returned served its error to its
\* own caller and to every caller folded onto it, its pending entry is gone,
\* and a caller that entered when no task was pending for its name was served
\* by a deducer call made after it entered
C10_ErrorDelivered ==
    /\ \A r \in Reqs :
         (task[r].pc = "finished" /\ Failed(r)) =>
            /\ \A q \in Reqs :
                 (q = r \/ (task[q].pc = "folded" /\ task[q].joined = r)) =>
                    (Done(q) /\ req[q].res = [gw |-> NilGate, err |-> task[r].err,
                                              from |-> r])
            /\ (req[r].name \in DOMAIN protoSrcs => Head(protoSrcs[req[r].name]) # r)
    /\ \A r \in Reqs :
         (Done(r) /\ req[r].path = "slow" /\ ~req[r].p0) =>
            deduceCalls[req[r].name] > req[r].d0

\* C10: a failed set-up is not remembered
C10_FailureNotCached == [](C10_ErrorDelivered) /\ C10_MapsUntouched

\* C10 witness: after a failed deduction was served, a later caller of the
\* same name was served by a second deducer call
C10_Witness ==
    \E r, q \in Reqs :
        /\ r # q /\ req[r].name = req[q].name
        /\ Done(r) /\ req[r].res.err = "deduction failed"
        /\ Done(q) /\ req[q].path = "slow" /\ req[q].d0 = 1 /\ ~req[q].p0
        /\ deduceCalls[req[q].name] = 2
        /\ nameToURL = EmptyMap

\* ------------------------------------------------------------------ require, called on its own
\* the wanted sets that the operations pass to require (lines 247, 258, 264,
\* 386, 406, 438)
WantedSets ==
    {{sourceIsSetUp, sourceExistsLocally, sourceHasLatestLocally},
     {sourceIsSetUp, sourceExistsUpstream},
     {sourceIsSetUp, sourceExistsLocally},
     {sourceIsSetUp, sourceHasLatestVersionList},
     {sourceIsSetUp, sourceExistsUpstream, sourceHasLatestVersionList},
     {sourceIsSetUp}}

\* one call of require(w) on gateway i, under sg.mu: the gateway it leaves,
\* and the record of the call with errState as its result
Require(i, w) ==
    /\ \E env \in EnvsFor(gw[i], w) :
         \E R \in {require(gw[i], w, env)} :
             /\ gw' = [gw EXCEPT ![i] = R.g]
             /\ lastOp' = [NoOp EXCEPT !.op = "require", !.gid = i, !.arg = w,
                                       !.ok = ~R.err, !.res = R.errState, !.log = R.log,
                                       !.reqs = <<w>>, !.seq = 1 - lastOp.seq]
    /\ UNCHANGED <<coordVars, lockVars, gmlHistory>>

RequireNext ==
    \/ \E i \in DOMAIN gw : \E w \in WantedSets : Require(i, w)
    \/ \E i \in DOMAIN gw : SyncLocal(i)

RequireSpec == GwInit /\ [][RequireNext]_vars

\* ------------------------------------------------------------------ callers of one gateway
\* the calls a body makes, in order: the dispatches of its log
CallsOf(log) == [k \in DOMAIN log |-> [cat |-> log[k].cat, ok |-> log[k].ok]]

\* lines 426-430: revisionPresentIn asks the adapter, outside the supervisor,
\* when require succeeded and the cache does not know the revision
AsksAdapter(g, r, env) ==
    Only({~q.err /\ ~hasVersionsFor(q.g.cache, r) :
          q \in {require(g, {sourceIsSetUp, sourceExistsLocally}, env)}})

\* the bodies of the operations that lock sg.mu, run on gateway g: the
\* operation, what it leaves and returns, and the adapter call it makes outside
\* the supervisor
Bodies(g) ==
    {[op |-> "sourceURL", R |-> sourceURL(g, env), direct |-> <<>>] :
        env \in EnvsFor(g, {sourceIsSetUp})}
    \cup {[op |-> "syncLocal", R |-> syncLocal(g, env), direct |-> <<>>] :
        env \in EnvsFor(g, {sourceIsSetUp, sourceExistsLocally, sourceHasLatestLocally})}
    \cup {[op |-> "checkExistence", R |-> checkExistence(g, ex, env), direct |-> <<>>] :
        ex \in SUBSET {existsInVendorRoot, existsInCache, existsUpstream},
        env \in EnvsFor(g, {sourceIsSetUp, sourceExistsUpstream, sourceExistsLocally})}
    \cup {[op |-> "exportVersionTo",
           R |-> exportVersionTo(g, v, [env EXCEPT !.op = o]), direct |-> <<>>] :
        v \in Versions, o \in BOOLEAN,
        env \in EnvsFor(g, {sourceIsSetUp, sourceExistsLocally, sourceHasLatestVersionList})}
    \cup {[op |-> "getManifestAndLock",
           R |-> getManifestAndLock(g, v, an, [env EXCEPT !.op = o]), direct |-> <<>>] :
        v \in Versions, an \in Analyzers, o \in BOOLEAN,
        env \in EnvsFor(g, {sourceIsSetUp, sourceExistsLocally, sourceHasLatestVersionList})}
    \cup {[op |-> "listPackages",
           R |-> listPackages(g, v, [env EXCEPT !.op = o]), direct |-> <<>>] :
        v \in Versions, o \in BOOLEAN,
        env \in EnvsFor(g, {sourceIsSetUp, sourceExistsLocally, sourceHasLatestVersionList})}
    \cup {[op |-> "listVersions", R |-> listVersions(g, env), direct |-> <<>>] :
        env \in EnvsFor(g, {sourceIsSetUp, sourceExistsUpstream, sourceHasLatestVersionList})}
    \cup {[op |-> "revisionPresentIn",
           R |-> revisionPresentIn(g, r, [env EXCEPT !.present = pr]),
           direct |-> IF AsksAdapter(g, r, env)
                      THEN <<[cat |-> "is-reference", ok |-> TRUE]>>
                      ELSE <<>>] :
        r \in Revs, pr \in BOOLEAN,
        env \in EnvsFor(g, {sourceIsSetUp, sourceExistsLocally})}

\* what a call does to the on-disk clone and its mutex, step by step, in the
\* baseVCSSource adapter (lines 560-641): the whole call, the call that ends
\* at a failed UpdateVersion, or no call when the supervisor refuses
AdapterProgs(c) ==
    CASE c.cat = "source-init" ->
           {<<"Lock", "get", "Unlock">>} \cup (IF c.ok THEN {} ELSE {<<>>})
      [] c.cat = "source-fetch" ->
           {<<"Lock", "update", "Unlock">>} \cup (IF c.ok THEN {} ELSE {<<>>})
      [] c.cat = "get-manifest-and-lock" ->
           {<<"Lock", "UpdateVersion", "readTree", "Unlock">>}
           \cup (IF c.ok THEN {} ELSE {<<"Lock", "UpdateVersion", "Unlock">>, <<>>})
      [] c.cat = "list-packages" ->
           {<<"Lock", "UpdateVersion", "Unlock", "readTree">>}
           \cup (IF c.ok THEN {} ELSE {<<"Lock", "UpdateVersion", "Unlock">>, <<>>})
      [] c.cat = "export-tree" ->
           {<<"UpdateVersion", "readTree">>}
           \cup (IF c.ok THEN {} ELSE {<<"UpdateVersion">>, <<>>})
      [] c.cat = "is-reference" ->
           {<<"RLock", "IsReference", "RUnlock">>}
      [] OTHER -> {<<>>}

\* a caller enters one of the operations
GEnter(t) ==
    /\ gcall[t].pc = "idle"
    /\ gcall' = [gcall EXCEPT ![t].pc = "lock"]
    /\ UNCHANGED <<coordVars, gw, lastOp, gmlHistory, mu, crepo>>

\* mutant: the operation does not wait for sg.mu
MuLock_noWait(t) ==
    /\ gcall[t].pc = "lock"
    /\ mu' = t
    /\ gcall' = [gcall EXCEPT ![t].pc = "body"]
    /\ UNCHANGED <<coordVars, gw, lastOp, gmlHistory, crepo>>

\* sg.mu.Lock(), the first line of every operation
MuLock(t) ==
    /\ gcall[t].pc = "lock"
    /\ mu = 0
    /\ mu' = t
    /\ gcall' = [gcall EXCEPT ![t].pc = "body"]
    /\ UNCHANGED <<coordVars, gw, lastOp, gmlHistory, crepo>>

\* the body of the operation: what it does to the gateway, which only
\* holders of sg.mu read, and the calls it makes, which are then walked through
Body(t) ==
    /\ gcall[t].pc = "body"
    /\ \E b \in Bodies(gw[1]) :
         /\ gw' = [gw EXCEPT ![1] = b.R.g]
         /\ gcall' = [gcall EXCEPT ![t].pc = "calls", ![t].op = b.op,
                                   ![t].calls = CallsOf(b.R.log) \o b.direct]
    /\ UNCHANGED <<coordVars, lastOp, gmlHistory, mu, crepo>>

\* the body is suspended in its next call (supervisor.do, or the adapter)
StartCall(t) ==
    /\ gcall[t].pc = "calls"
    /\ gcall[t].calls # <<>>
    /\ \E prog \in AdapterProgs(Head(gcall[t].calls)) :
         gcall' = [gcall EXCEPT ![t].pc = "dispatch", ![t].prog = prog]
    /\ UNCHANGED <<coordVars, gw, lastOp, gmlHistory, mu, crepo>>

\* bs.crepo.mut.Lock()
CloneLock(t) ==
    /\ gcall[t].pc = "dispatch"
    /\ gcall[t].prog # <<>> /\ Head(gcall[t].prog) = "Lock"
    /\ crepo.w = 0 /\ crepo.r = {}
    /\ crepo' = [crepo EXCEPT !.w = t]
    /\ gcall' = [gcall EXCEPT ![t].prog = Tail(@), ![t].at = ""]
    /\ UNCHANGED <<coordVars, gw, lastOp, gmlHistory, mu>>

\* bs.crepo.mut.Unlock()
CloneUnlock(t) ==
    /\ gcall[t].pc = "dispatch"
    /\ gcall[t].prog # <<>> /\ Head(gcall[t].prog) = "Unlock"
    /\ crepo' = [crepo EXCEPT !.w = 0]
    /\ gcall' = [gcall EXCEPT ![t].prog = Tail(@), ![t].at = ""]
    /\ UNCHANGED <<coordVars, gw, lastOp, gmlHistory, mu>>

\* bs.crepo.mut.RLock()
CloneRLock(t) ==
    /\ gcall[t].pc = "dispatch"
    /\ gcall[t].prog # <<>> /\ Head(gcall[t].prog) = "RLock"
    /\ crepo.w = 0
    /\ crepo' = [crepo EXCEPT !.r = @ \cup {t}]
    /\ gcall' = [gcall EXCEPT ![t].prog = Tail(@), ![t].at = ""]
    /\ UNCHANGED <<coordVars, gw, lastOp, gmlHistory, mu>>

\* bs.crepo.mut.RUnlock()
CloneRUnlock(t) ==
    /\ gcall[t].pc = "dispatch"
    /\ gcall[t].prog # <<>> /\ Head(gcall[t].prog) = "RUnlock"
    /\ crepo' = [crepo EXCEPT !.r = @ \ {t}]
    /\ gcall' = [gcall EXCEPT ![t].prog = Tail(@), ![t].at = ""]
    /\ UNCHANGED <<coordVars, gw, lastOp, gmlHistory, mu>>

\* the adapter works on the clone: get, update, UpdateVersion, IsReference, or
\* the read of the working tree
Touch(t) ==
    /\ gcall[t].pc = "dispatch"
    /\ gcall[t].prog # <<>>
    /\ Head(gcall[t].prog) \notin {"Lock", "Unlock", "RLock", "RUnlock"}
    /\ gcall' = [gcall EXCEPT ![t].prog = Tail(@), ![t].at = Head(gcall[t].prog)]
    /\ UNCHANGED <<coordVars, gw, lastOp, gmlHistory, mu, crepo>>

\* the call returns to the body
EndCall(t) ==
    /\ gcall[t].pc = "dispatch"
    /\ gcall[t].prog = <<>>
    /\ gcall' = [gcall EXCEPT ![t].pc = "calls", ![t].calls = Tail(@), ![t].at = ""]
    /\ UNCHANGED <<coordVars, gw, lastOp, gmlHistory, mu, crepo>>

\* the operation returns: the deferred sg.mu.Unlock()
MuUnlock(t) ==
    /\ gcall[t].pc = "calls"
    /\ gcall[t].calls = <<>>
    /\ mu' = 0
    /\ gcall' = [gcall EXCEPT ![t] = IdleCall]
    /\ UNCHANGED <<coordVars, gw, lastOp, gmlHistory, crepo>>

LockNext ==
    \E t \in Callers :
        \/ GEnter(t) \/ MuLock(t) \/ Body(t) \/ StartCall(t)
        \/ CloneLock(t) \/ CloneUnlock(t) \/ CloneRLock(t) \/ CloneRUnlock(t)
        \/ Touch(t) \/ EndCall(t) \/ MuUnlock(t)

LockSpec == GwInit /\ [][LockNext]_vars

\* ------------------------------------------------------------------ gateway properties
\* the step is a call of one of the named operations
Calls(ops) == lastOp'.seq # lastOp.seq /\ lastOp'.op \in ops

HasDispatch(log, cat) == \E k \in DOMAIN log : log[k].cat = cat

\* C6: no call on a gateway, failing ones included, clears a bit of srcState
C6_StateMonotone ==
    [][\A i \in DOMAIN gw : i \in DOMAIN gw' /\ gw[i].srcState \subseteq gw'[i].srcState]_vars

\* C6 witness: a syncLocal has failed in its fetch and the bits acquired
\* before it are still set
C6_Witness ==
    /\ lastOp.op = "syncLocal" /\ ~lastOp.ok
    /\ HasDispatch(lastOp.log, "source-fetch")
    /\ {sourceIsSetUp, sourceExistsLocally} \subseteq gw[lastOp.gid].srcState
    /\ sourceHasLatestLocally \notin gw[lastOp.gid].srcState

\* C7: with sourceHasLatestVersionList set, resolving a version the cache does
\* not know fails with "no such version", makes no call and leaves the gateway
\* (state bits and cache) as it was
C7_DefinitiveMiss ==
    [][(/\ Calls({"convertToRevision", "getManifestAndLock", "listPackages"})
        /\ sourceHasLatestVersionList \in gw[lastOp'.gid].srcState
        /\ ~cacheHasVersion(gw[lastOp'.gid].cache, lastOp'.arg))
          => (/\ ~lastOp'.ok
              /\ lastOp'.err = "no such version"
              /\ lastOp'.log = <<>>
              /\ gw' = gw)]_vars

\* C7 witness: a version missing from a non-empty version list was refused
\* without a call
C7_Witness ==
    /\ lastOp.op = "convertToRevision" /\ ~lastOp.ok /\ lastOp.log = <<>>
    /\ sourceHasLatestVersionList \in gw[lastOp.gid].srcState
    /\ gw[lastOp.gid].cache.vmap # EmptyMap
    /\ lastOp.arg \notin DOMAIN gw[lastOp.gid].cache.vmap

\* C8: when convertToRevision(v) dispatches list-versions and the dispatch
\* succeeds with a list that pairs v with r, there was one such dispatch, the
\* list is the cache's version map and the call returns r
C8_RefreshStoresList ==
    \A k \in DOMAIN lastOp.log :
        (/\ lastOp.op = "convertToRevision"
         /\ lastOp.log[k].cat = "list-versions" /\ lastOp.log[k].ok
         /\ lastOp.arg \in DOMAIN lastOp.log[k].pvl)
          => (/\ Cardinality({j \in DOMAIN lastOp.log :
                                lastOp.log[j].cat = "list-versions"}) = 1
              /\ gw[lastOp.gid].cache.vmap = lastOp.log[k].pvl
              /\ lastOp.ok
              /\ lastOp.res = lastOp.log[k].pvl[lastOp.arg])

\* C9: a getManifestAndLock(v, A) that follows a successful one makes no
\* call, requires nothing and returns the pair returned the first time; and a
\* hit of the cache for (revision, A) is returned without the require of
\* sourceExistsLocally and without a dispatch of the derivation
C9_ManifestCacheHit ==
    [][Calls({"getManifestAndLock"}) =>
        LET g == gw[lastOp'.gid]
            key == <<lastOp'.arg, lastOp'.an>>
            rkey == <<lastOp'.rev, lastOp'.an>>
        IN  /\ key \in DOMAIN gmlHistory =>
                 /\ lastOp'.ok
                 /\ lastOp'.res = gmlHistory[key]
                 /\ lastOp'.log = <<>>
                 /\ lastOp'.reqs = <<>>
                 /\ gw'[lastOp'.gid].srcState = g.srcState
            /\ (lastOp'.rev # "" /\ rkey \in DOMAIN g.cache.ml) =>
                 /\ lastOp'.ok
                 /\ lastOp'.res = g.cache.ml[rkey]
                 /\ \A k \in DOMAIN lastOp'.reqs :
                        sourceExistsLocally \notin lastOp'.reqs[k]
                 /\ ~HasDispatch(lastOp'.log, "get-manifest-and-lock")]_vars

\* C9 witness: a second getManifestAndLock(v, A) has returned the remembered
\* pair without a call, on a gateway that derived it once
C9_Witness ==
    /\ lastOp.op = "getManifestAndLock" /\ lastOp.ok /\ lastOp.log = <<>>
    /\ <<lastOp.arg, lastOp.an>> \in DOMAIN gmlHistory
    /\ lastOp.res = gmlHistory[<<lastOp.arg, lastOp.an>>]
    /\ gw[lastOp.gid].cache.ml = (<<lastOp.rev, lastOp.an>> :> lastOp.res)

\* ------------------------------------------------------------------ lifetime
\* C11: a getSourceGatewayFor call made after the lifetime context was
\* cancelled returns the termination error in its first step, whatever the
\* name: no lock is taken, hence no map read, no pending entry is added, no
\* set-up task is spawned and neither the deducer nor a probe is called
C11_TerminatedFailsAtOnce ==
    [][\A r \in Reqs :
         (terminated /\ req[r].pc = "idle" /\ req'[r].pc # "idle")
           => (/\ req'[r].pc = "done"
               /\ req'[r].res = [gw |-> NilGate, err |-> "terminated", from |-> 0]
               /\ UNCHANGED <<srcmut, srcs, nameToURL, psrcmut, protoSrcs, task,
                              deduceCalls, probeCalls>>)]_vars

\* C11 witness: a call for a name that is resolved in nameToURL was refused
C11_Witness ==
    \E r \in Reqs :
        /\ terminated
        /\ req[r].path = "refused" /\ req[r].res.err = "terminated"
        /\ req[r].name \in DOMAIN nameToURL
        /\ task[r] = NoTask

\* ------------------------------------------------------------------ locks of a gateway
\* caller t is inside the body of an operation, suspended in a call or not
Inside(t) == gcall[t].pc \in {"body", "calls", "dispatch"}

\* C12: of the concurrent callers of one gateway's operations at most one is
\* inside an operation body, also while that body is suspended in a dispatch,
\* and it holds sg.mu; so at most one UpdateVersion is in progress
C12_GatewayExclusive ==
    /\ \A t, u \in Callers : Inside(t) /\ Inside(u) => t = u
    /\ \A t \in Callers : Inside(t) => mu = t
    /\ Cardinality({t \in Callers : gcall[t].at = "UpdateVersion"}) <= 1

\* C12 witness: one caller is in UpdateVersion inside a dispatch while another
\* has called an operation and waits for sg.mu
C12_Witness ==
    \E t, u \in Callers :
        /\ t # u
        /\ gcall[t].pc = "dispatch" /\ gcall[t].at = "UpdateVersion"
        /\ gcall[u].pc = "lock"

\* C18: whenever an adapter call works on the on-disk clone (get, update,
\* UpdateVersion, the read of the working tree that follows it, IsReference)
\* the caller holds the clone mutex, as a reader for IsReference
C18_CloneMutexHeld ==
    \A t \in Callers :
        /\ gcall[t].at \in {"get", "update", "UpdateVersion", "readTree"} => crepo.w = t
        /\ gcall[t].at = "IsReference" => t \in crepo.r

\* ------------------------------------------------------------------ require
\* the state bit whose step makes a call of the category
BitOf(cat) ==
    CASE cat = "probe" -> sourceIsSetUp
      [] cat = "source-ping" -> sourceExistsUpstream
      [] cat = "source-init" -> sourceExistsLocally
      [] cat = "list-versions" -> sourceHasLatestVersionList
      [] cat = "source-fetch" -> sourceHasLatestLocally
      [] OTHER -> 0

SyncWanted == {sourceIsSetUp, sourceExistsLocally, sourceHasLatestLocally}

\* C13: on every gateway reached, a require(w) that fails has errState b, the
\* unset wanted bit whose call failed last in the log after successful calls
\* for lower bits only; the bits set before and the wanted bits below b are set
\* after it, b and the wanted bits above b that were unset are still unset; and
\* whatever the next require(w) meets, its first call is the step of b and it
\* makes no call for a bit that is set
C13_AbortKeepsEarlier ==
    \A i \in DOMAIN gw : \A w \in WantedSets : \A env \in EnvsFor(gw[i], w) :
      \A R \in {require(gw[i], w, env)} :
        R.err =>
          LET g == gw[i]
              b == R.errState
              n == Len(R.log)
          IN  /\ b \in w \ g.srcState
              /\ n >= 1
              /\ BitOf(R.log[n].cat) = b /\ ~R.log[n].ok
              /\ \A k \in 1..(n - 1) : R.log[k].ok /\ BitOf(R.log[k].cat) < b
              /\ g.srcState \subseteq R.g.srcState
              /\ {x \in w : x < b} \subseteq R.g.srcState
              /\ \A x \in w \ g.srcState : x >= b => x \notin R.g.srcState
              /\ \A env2 \in EnvsFor(R.g, w) : \A R2 \in {require(R.g, w, env2)} :
                    /\ R2.log # <<>>
                    /\ BitOf(R2.log[1].cat) = b
                    /\ \A k \in DOMAIN R2.log : BitOf(R2.log[k].cat) \notin R.g.srcState

\* C13 witness: a require of syncLocal's bits failed in the fetch, the only
\* call it made, on a gateway that was set up with a local clone before
C13_Witness ==
    /\ lastOp.op = "require" /\ ~lastOp.ok
    /\ lastOp.arg = SyncWanted
    /\ lastOp.res = sourceHasLatestLocally
    /\ Len(lastOp.log) = 1 /\ lastOp.log[1].cat = "source-fetch"
    /\ {sourceIsSetUp, sourceExistsLocally} \subseteq gw[lastOp.gid].srcState
    /\ sourceHasLatestLocally \notin gw[lastOp.gid].srcState

\* C16: in the sourceExistsLocally step a present clone means no call and no
\* other bit, an absent one means one source-init call that on success brings
\* sourceHasLatestLocally too; so syncLocal never makes both a source-init and
\* a source-fetch call: past the set-up it makes the source-init alone without
\* a clone and the source-fetch alone with one
C16_InitOrFetch ==
    \A i \in DOMAIN gw :
      LET g == gw[i] IN
      /\ sourceIsSetUp \in g.srcState =>
           \A env \in EnvsFor(g, {sourceExistsLocally}) :
             \A st \in {RequireStep(g, sourceExistsLocally, env)} :
               IF g.local
               THEN st.log = <<>> /\ ~st.err /\ st.addl = {}
               ELSE /\ Len(st.log) = 1 /\ st.log[1].cat = "source-init"
                    /\ st.log[1].ok = ~st.err
                    /\ ~st.err => st.addl = {sourceHasLatestLocally}
      /\ \A env \in EnvsFor(g, SyncWanted) : \A R \in {syncLocal(g, env)} :
           LET setUp == sourceIsSetUp \in g.srcState \/ env.probe.ok
               clone == IF sourceIsSetUp \in g.srcState THEN g.local ELSE env.probe.local
               init == HasDispatch(R.log, "source-init")
               fetch == HasDispatch(R.log, "source-fetch")
           IN  /\ ~(init /\ fetch)
               /\ (setUp /\ sourceHasLatestLocally \notin g.srcState) =>
                     IF clone THEN fetch /\ ~init ELSE init /\ ~fetch

\* C16 witness: a syncLocal has succeeded with a source-init call and no
\* source-fetch, leaving both bits set
C16_Witness ==
    /\ lastOp.op = "syncLocal" /\ lastOp.ok
    /\ HasDispatch(lastOp.log, "source-init")
    /\ ~HasDispatch(lastOp.log, "source-fetch")
    /\ {sourceExistsLocally, sourceHasLatestLocally} \subseteq gw[lastOp.gid].srcState

\* C17: on every gateway reached, require(w) makes calls only for bits of w
\* that are unset, none for a bit the probe or the source-init of the same
\* call brought along, each at most once and in ascending bit order; it ends
\* with all of w set unless a step failed, and with nothing done when w was set
C17_StepsInOrder ==
    \A i \in DOMAIN gw : \A w \in WantedSets : \A env \in EnvsFor(gw[i], w) :
      \A R \in {require(gw[i], w, env)} :
        LET g == gw[i]
            todo == w \ g.srcState
        IN  /\ \A k \in DOMAIN R.log : BitOf(R.log[k].cat) \in todo
            /\ \A j, k \in DOMAIN R.log : j < k => BitOf(R.log[j].cat) < BitOf(R.log[k].cat)
            /\ (sourceIsSetUp \in todo /\ env.probe.ok) =>
                  \A k \in DOMAIN R.log : BitOf(R.log[k].cat) \notin env.probe.addl
            /\ (\E k \in DOMAIN R.log : R.log[k].cat = "source-init" /\ R.log[k].ok) =>
                  ~HasDispatch(R.log, "source-fetch")
            /\ ~R.err => w \subseteq R.g.srcState /\ R.errState = 0
            /\ todo = {} => R.log = <<>> /\ ~R.err /\ R.g = g

\* C17 witness: a require of listVersions' bits has made the probe its only
\* call, the probe having brought the two other bits along
C17_Witness ==
    /\ lastOp.op = "require" /\ lastOp.ok
    /\ lastOp.arg = {sourceIsSetUp, sourceExistsUpstream, sourceHasLatestVersionList}
    /\ Len(lastOp.log) = 1 /\ lastOp.log[1].cat = "probe"
    /\ lastOp.arg \subseteq gw[lastOp.gid].srcState

\* C14: on every gateway reached, a require whose list-versions call fails
\* leaves the cache's version map and reverse map as they were before the call
\* and sourceHasLatestVersionList unset
C14_FailedListKeepsCache ==
    \A i \in DOMAIN gw : \A w \in WantedSets : \A env \in EnvsFor(gw[i], w) :
      \A R \in {require(gw[i], w, env)} :
        (\E k \in DOMAIN R.log : R.log[k].cat = "list-versions" /\ ~R.log[k].ok) =>
            /\ R.g.cache.vmap = gw[i].cache.vmap
            /\ R.g.cache.rmap = gw[i].cache.rmap
            /\ sourceHasLatestVersionList \notin R.g.srcState

\* ------------------------------------------------------------------ exportVersionTo
\* C15 as stated: an exportVersionTo of a version that cannot be resolved has
\* made no source-init call and leaves sourceExistsLocally unset
C15_Original ==
    (lastOp.op = "exportVersionTo" /\ lastOp.err = "no such version") =>
        /\ ~HasDispatch(lastOp.log, "source-init")
        /\ sourceExistsLocally \notin gw[lastOp.gid].srcState

\* C15: exportVersionTo first requires sourceIsSetUp and sourceExistsLocally
\* and resolves the version after that: a call that fails because the version
\* cannot be resolved leaves both bits set and has made no export-tree call,
\* no list-versions call comes before a source-init call, and the export-tree
\* call is made last, with both bits set and the version resolved
C15_ExportRequiresFirst ==
    lastOp.op = "exportVersionTo" =>
        LET log == lastOp.log
            w == {sourceIsSetUp, sourceExistsLocally}
        IN  /\ lastOp.reqs # <<>> /\ lastOp.reqs[1] = w
            /\ lastOp.err = "no such version" =>
                  /\ ~lastOp.ok
                  /\ w \subseteq gw[lastOp.gid].srcState
                  /\ ~HasDispatch(log, "export-tree")
            /\ \A j, k \in DOMAIN log :
                  (log[j].cat = "list-versions" /\ log[k].cat = "source-init") => k < j
            /\ \A k \in DOMAIN log :
                  log[k].cat = "export-tree" =>
                      /\ k = Len(log)
                      /\ w \subseteq gw[lastOp.gid].srcState
                      /\ lastOp.rev # ""

\* C15 witness: an exportVersionTo of a version that cannot be resolved has
\* failed after a source-init call, with sourceExistsLocally set
C15_Witness ==
    /\ lastOp.op = "exportVersionTo" /\ lastOp.err = "no such version"
    /\ HasDispatch(lastOp.log, "source-init")
    /\ sourceExistsLocally \in gw[lastOp.gid].srcState

\* ------------------------------------------------------------------ lock order, pending entries
\* goroutine pair r (the caller and its set-up task) holds the maps lock
HoldsMaps(r) == srcmut.w = r \/ r \in srcmut.r

\* some caller has not returned or some set-up task has not ended
Unfinished ==
    \E r \in Reqs : req[r].pc \notin {"idle", "done"}
                    \/ task[r].pc \notin {"none", "folded", "finished"}

\* C19, the order: the maps lock is not acquired by a holder of the pending
\* lock, the pending lock is released before it, and the one gateway call of
\* the coordinator (sourceURL of the fresh gateway, in Probe) is made by a task
\* that holds neither lock and changes neither lock nor map
C19_Order ==
    [][\A r \in Reqs :
         /\ (~HoldsMaps(r) /\ HoldsMaps(r)') => (psrcmut # r /\ psrcmut' # r)
         /\ (psrcmut = r /\ psrcmut' # r) => ~HoldsMaps(r)'
         /\ (task[r].pc = "probe" /\ task'[r].pc # "probe") =>
               /\ ~HoldsMaps(r) /\ psrcmut # r
               /\ UNCHANGED <<srcmut, psrcmut, srcs, nameToURL, protoSrcs>>]_vars

\* C19, no deadlock: while a caller or a set-up task is unfinished some
\* goroutine can take a step, and when all are finished both locks are free
C19_NoDeadlock ==
    /\ Unfinished => ENABLED (\E r \in Reqs : Step(r))
    /\ ~Unfinished => (psrcmut = 0 /\ srcmut = [w |-> 0, r |-> {}])

C20_Delivery ==
    [][\A n \in DOMAIN protoSrcs :
         LET l == protoSrcs[n] IN
         /\ \A k \in DOMAIN l :
               req[l[k]].pc = "done" =>
                   \E w \in Reqs : task[w].pc = "deliver" /\ req[w].name = n /\ k < task[w].idx
         /\ n \notin DOMAIN protoSrcs' =>
               \A k \in DOMAIN l : req'[l[k]].pc = "done" /\ req'[l[k]].res.from = l[1]
         /\ \A r \in Reqs : req[r].pc = "done" => req'[r] = req[r]]_vars

\* C20, the pending map: per name at most one set-up task is past the
\* pending check, the name has an entry exactly while there is one, the entry
\* lists distinct awaiting or served callers of that name headed by the worker,
\* and doReturn is never reached with neither gateway nor error
C20_PendingState ==
    /\ \A n \in Names :
         LET ws == {r \in Reqs : req[r].name = n /\ task[r].pc \in WorkerPcs} IN
         /\ Cardinality(ws) <= 1
         /\ (n \in DOMAIN protoSrcs) = (ws # {})
         /\ n \in DOMAIN protoSrcs =>
               /\ protoSrcs[n] # <<>> /\ ws = {protoSrcs[n][1]}
               /\ \A j, k \in DOMAIN protoSrcs[n] : protoSrcs[n][j] = protoSrcs[n][k] => j = k
               /\ \A k \in DOMAIN protoSrcs[n] :
                     req[protoSrcs[n][k]].name = n
                     /\ req[protoSrcs[n][k]].pc \in {"await", "done"}
    /\ (\A r \in Reqs : task[r].pc \notin WorkerPcs) => protoSrcs = EmptyMap
    /\ \A r \in Reqs : task[r].pc # "panicnil"

\* C20: the implicit invariants of the pending map and of the delivery
C20_PendingInvariants == [](C20_PendingState) /\ C20_Delivery

\* C20 witness: a worker has delivered to both waiters of its entry and the
\* entry is gone, with no worker left
C20_Witness ==
    /\ protoSrcs = EmptyMap
    /\ \E r1, r2 \in Reqs :
         /\ r1 # r2
         /\ task[r1].pc = "finished" /\ task[r2].pc = "folded"
         /\ req[r1].pc = "done" /\ req[r2].pc = "done"
         /\ req[r1].res.from = r1 /\ req[r2].res.from = r1

====
